---- MODULE Spec2Model ----
(* acme-dns certbot authentication hook (acme-dns-auth.py): the credential   *)
(* store, the acme-dns HTTP client, the main() run, and the configuration     *)
(* resolver exercised by tests/test_acme_dns_auth.py.                         *)
EXTENDS Integers, Sequences, FiniteSets, TLC

\* ---------------------------------------------------------------- bounds
\* Most "*." prefixes a key handed to Storage.put carries.
MaxStars == 2
\* Most accounts the acme-dns server hands out.
MaxAccounts == 2

\* ------------------------------------------------------------------ data
Procs == {1, 2}
Bases == {"example.com", "example.org"}
Tokens == {"tok1", "tok2"}

\* A domain name: `stars` leading "*." prefixes in front of `base`.
Keys == [stars : 0..MaxStars, base : Bases]
\* What certbot passes in CERTBOT_DOMAIN: a bare name or a single wildcard.
CertbotDomains == {k \in Keys : k.stars \in {0, 1}}
NoKey == [stars |-> 0, base |-> ""]

\* An account record as /register returns it; Account(0) stands for None.
Account(n) ==
  [subdomain |-> <<"subdomain", n>>, username |-> <<"username", n>>,
   password |-> <<"password", n>>, fulldomain |-> <<"fulldomain", n>>]
None == Account(0)
\* The account a store file written by an earlier run holds for a base name.
OldAccount(base) == IF base = "example.com" THEN Account(8) ELSE Account(9)
Accounts == {Account(n) : n \in 1..MaxAccounts} \cup {OldAccount(b) : b \in Bases}

EmptyMap == [k \in {} |-> None]

\* ----------------------------------------------------------- file system
\* File content: "empty" (zero bytes), "json" (the serialization of `map`),
\* "partial" (a non-empty strict prefix of the serialization of `map`),
\* "garbage" (other text that is not JSON).
Content(kind, map) == [kind |-> kind, map |-> map]
EmptyContent == Content("empty", EmptyMap)
\* json.dumps(self._data)
Serialize(map) == Content("json", map)
\* json.loads(filedata): [ok, map]
Parse(content) ==
  IF content.kind = "json" THEN [ok |-> TRUE, map |-> content.map]
  ELSE [ok |-> FALSE, map |-> EmptyMap]

File(exists, readable, content) ==
  [exists |-> exists, readable |-> readable, content |-> content]
AbsentFile == File(FALSE, FALSE, EmptyContent)

\* Storage.load: [ok, data, error]
StorageLoad(f) ==
  LET filedata == IF f.exists /\ f.readable THEN f.content ELSE EmptyContent
      parsed == Parse(filedata)
  IN IF f.exists /\ ~f.readable
       THEN [ok |-> FALSE, data |-> EmptyMap, error |-> "storage_unreadable"]
     ELSE IF parsed.ok
       THEN [ok |-> TRUE, data |-> parsed.map, error |-> ""]
     ELSE IF filedata.kind # "empty"
       THEN [ok |-> FALSE, data |-> EmptyMap, error |-> "storage_corrupted"]
     ELSE [ok |-> TRUE, data |-> EmptyMap, error |-> ""]

\* Faulty variant: the wildcard marker is left on.
StripWildcardNever(key) == key
\* key[2:] when key.startswith('*.')
StripWildcard(key) ==
  IF key.stars > 0 THEN [key EXCEPT !.stars = key.stars - 1] ELSE key

\* Faulty variant: put replaces the whole mapping by the one entry.
StoragePutAlone(data, key, value) == [k \in {StripWildcard(key)} |-> value]
\* Storage.put
StoragePut(data, key, value) ==
  LET k2 == StripWildcard(key)
  IN [k \in DOMAIN data \cup {k2} |-> IF k = k2 THEN value ELSE data[k]]

\* Storage.fetch
StorageFetch(data, key) == IF key \in DOMAIN data THEN data[key] ELSE None

\* os.open(path, O_WRONLY | O_CREAT, 0o600): the file after a successful open
OpenForWrite(f) == IF f.exists THEN f ELSE File(TRUE, TRUE, EmptyContent)
\* fh.truncate()
Truncate(f) == [f EXCEPT !.content = EmptyContent]
\* What a write that fails part-way can leave behind.
TornContents(map) == {EmptyContent, Content("partial", map)}
\* What writing the whole serialization at offset 0 leaves: over an empty
\* file the serialization; over text another writer put there meanwhile, the
\* serialization, or a mix of both texts when the other text is longer.
Overwrite(content, map) ==
  IF content.kind = "empty" THEN {Serialize(map)}
  ELSE {Serialize(map), Content("garbage", EmptyMap)}

\* -------------------------------------------------------------- messages
\* One HTTP call: what was sent (path, X-Api-User, X-Api-Key, subdomain, txt,
\* allowfrom) and what came back (status, body).
Request(path, acct, txt, allowfrom, status, body) ==
  [path |-> path, user |-> acct.username, key |-> acct.password,
   subdomain |-> acct.subdomain, txt |-> txt, allowfrom |-> allowfrom,
   status |-> status, body |-> body]

\* A response body: the JSON value it parses to ("none": it is not JSON) and
\* its text layout.
Body(value, layout) == [value |-> value, layout |-> layout]
NoBody == Body("none", "none")
ResponseBodies ==
  {Body("error_object", "indent2_sorted"), Body("error_object", "compact"),
   Body("none", "plain_text")}
\* res.json(): [ok, value]
ResJson(body) == [ok |-> body.value # "none", value |-> body.value]
\* json.dumps(value, indent=2, sort_keys=True)
JsonDumpsPretty(value) == Body(value, "indent2_sorted")

\* A printed error: its kind, and for the HTTP errors the response status,
\* the response body as printed, and the outgoing headers and body.
Message(kind, status, body, user, key, subdomain, txt) ==
  [kind |-> kind, status |-> status, body |-> body, user |-> user,
   key |-> key, subdomain |-> subdomain, txt |-> txt]
PlainError(kind) ==
  Message(kind, 0, NoBody, None.username, None.password, None.subdomain, "")


\* -------------------------------------------------------- acme-dns client
\* Faulty variant: the status of /register is not looked at.
RegisterOkAny(status) == TRUE
\* register_account: success is exactly HTTP 201
RegisterOk(status) == status = 201
\* update_txt_record: success is exactly HTTP 200
UpdateOk(status) == status = 200
RegisterStatuses == {201, 400}
UpdateStatuses == {200, 400}
\* The bodies the server sends with a status: the account on 201, an empty
\* body on 200, an error text otherwise.
ReplyBodies(status) ==
  IF status = 201 THEN {Body("account", "compact")}
  ELSE IF status = 200 THEN {Body("empty_object", "compact")}
  ELSE ResponseBodies

\* The outgoing /register call: the allow list is sent only when non-empty.
RegisterRequest(allowfrom, status, body) ==
  Request("/register", None, "", allowfrom, status, body)
\* The outgoing /update call: headers from the account, body {subdomain, txt}.
UpdateRequest(acct, txt, status, body) ==
  Request("/update", acct, txt, <<>>, status, body)

\* What update_txt_record raises on a non-200 answer: building the message
\* calls res.json(), which itself raises when the body is not JSON.
UpdateError(acct, txt, status, body) ==
  IF ResJson(body).ok
    THEN Message("update_error", status, JsonDumpsPretty(ResJson(body).value),
                 acct.username, acct.password, acct.subdomain, txt)
    ELSE PlainError("json_decode_error")
\* What register_account raises: the status and res.text.
RegisterError(status, body) ==
  Message("register_error", status, body, None.username, None.password,
          None.subdomain, "")

\* ------------------------------------------------------------------ main
\* Faulty variant: a new account is registered on every run.
NeedRegisterAlways(force, acct) == TRUE
\* if FORCE_REGISTER or not account
NeedRegister(force, acct) == force \/ acct = None
\* Faulty variant: storage.save() sits outside the if and runs on every path.
AfterFetchSaveAlways(force, acct) ==
  IF force \/ acct = None THEN "register" ELSE "save_open"
\* Where main goes after storage.fetch(DOMAIN).
AfterFetch(force, acct) ==
  IF NeedRegister(force, acct) THEN "register" ELSE "update"
\* VALIDATION_DOMAIN = '_acme-challenge.' + DOMAIN
ValidationDomain(dom) == <<"_acme-challenge", dom>>
\* '{}. CNAME {}.'.format(VALIDATION_DOMAIN, account['fulldomain'])
CnameLine(dom, acct) == [name |-> ValidationDomain(dom), target |-> acct.fulldomain]

VARIABLES
  file,           \* the store file at STORAGE_PATH
  file0,          \* the store file as it was when the runs started
  nextAcct,       \* the acme-dns server: number of the next account it issues
  forceRegister,  \* FORCE_REGISTER
  allowFrom,      \* ALLOW_FROM
  environ,        \* per process: CERTBOT_DOMAIN and CERTBOT_VALIDATION
  pc,             \* per process: position in the script
  domain,         \* per process: DOMAIN
  token,          \* per process: VALIDATION_TOKEN
  data,           \* per process: Storage._data
  loaded,         \* per process: what Storage.load returned at construction
  account,        \* per process: main's `account`
  pending,        \* per process: save() holds unflushed text in fh's buffer
  http,           \* per process: the HTTP calls issued, in order
  events,         \* per process: the steps taken, in order
  notices,        \* per process: the CNAME notices printed
  errors,         \* per process: the messages printed by main's except clause
  exitStatus,     \* per process: -1 while running, else the exit status
  cfgIn,          \* build_acme_dns_config_from_env: environment and file given
  cfgOut          \* build_acme_dns_config_from_env: what it returned or raised

shared == <<file, file0, nextAcct>>
settings == <<forceRegister, allowFrom, environ>>
locals == <<domain, token, data, loaded, account, pending>>
logs == <<http, events, notices, errors, exitStatus>>
cfg == <<cfgIn, cfgOut>>
vars == <<shared, settings, pc, locals, logs, cfg>>

Env(hasDomain, dom, hasToken, tok) ==
  [hasDomain |-> hasDomain, domain |-> dom, hasToken |-> hasToken, token |-> tok]
\* The environments a run is started in.
Environments ==
  {Env(TRUE, d, TRUE, t) : d \in CertbotDomains, t \in Tokens}
    \cup {Env(FALSE, NoKey, TRUE, t) : t \in Tokens}
    \cup {Env(TRUE, d, FALSE, "") : d \in CertbotDomains}

NoEnv == Env(FALSE, NoKey, FALSE, "")

BareKeys == {k \in Keys : k.stars = 0}
\* The mappings earlier runs can have saved: bare names to their accounts.
StoredMaps ==
  {[k \in S |-> OldAccount(k.base)] : S \in SUBSET BareKeys}
InitialFiles ==
  {AbsentFile, File(TRUE, FALSE, EmptyContent)}
    \cup {File(TRUE, TRUE, c) :
            c \in {EmptyContent, Content("garbage", EmptyMap)}
                    \cup {Serialize(m) : m \in StoredMaps}
                    \cup {Content("partial", m) : m \in StoredMaps \ {EmptyMap}}}

Log(p, ev) == events' = [events EXCEPT ![p] = Append(@, ev)]
\* except Exception as e: print(str(e)); sys.exit(1)
Caught(p, msg) ==
  /\ errors' = [errors EXCEPT ![p] = Append(@, msg)]
  /\ exitStatus' = [exitStatus EXCEPT ![p] = 1]
  /\ pc' = [pc EXCEPT ![p] = "failed"]

\* Lines 24-28: the module-level reads of os.environ, outside main's try.
\* A missing variable raises KeyError there: the interpreter prints a
\* traceback and exits 1, and main() is never entered.
ModuleLevel(p) ==
  /\ pc[p] = "module"
  /\ LET e == environ[p]
     IN IF e.hasDomain /\ e.hasToken
          THEN /\ domain' = [domain EXCEPT ![p] = StripWildcard(e.domain)]
               /\ token' = [token EXCEPT ![p] = e.token]
               /\ pc' = [pc EXCEPT ![p] = "init"]
               /\ UNCHANGED exitStatus
          ELSE /\ pc' = [pc EXCEPT ![p] = "uncaught"]
               /\ exitStatus' = [exitStatus EXCEPT ![p] = 1]
               /\ UNCHANGED <<domain, token>>
  /\ UNCHANGED <<shared, settings, data, loaded, account, pending, http, events,
                 notices, errors, cfg>>

\* client = AcmeDnsClient(ACMEDNS_URL); storage = Storage(STORAGE_PATH)
InitStorage(p) ==
  /\ pc[p] = "init"
  /\ LET r == StorageLoad(file)
     IN /\ Log(p, "load")
        /\ IF r.ok
             THEN /\ data' = [data EXCEPT ![p] = r.data]
                  /\ loaded' = [loaded EXCEPT ![p] = r.data]
                  /\ pc' = [pc EXCEPT ![p] = "fetch"]
                  /\ UNCHANGED <<errors, exitStatus>>
             ELSE /\ Caught(p, PlainError(r.error))
                  /\ UNCHANGED <<data, loaded>>
  /\ UNCHANGED <<shared, settings, domain, token, account, pending, http,
                 notices, cfg>>

\* account = storage.fetch(DOMAIN); if FORCE_REGISTER or not account
Fetch(p) ==
  /\ pc[p] = "fetch"
  /\ LET a == StorageFetch(data[p], domain[p])
     IN /\ account' = [account EXCEPT ![p] = a]
        /\ pc' = [pc EXCEPT ![p] = AfterFetch(forceRegister, a)]
  /\ UNCHANGED <<shared, settings, domain, token, data, loaded, pending, logs, cfg>>

\* account = client.register_account(ALLOW_FROM)
Register(p) ==
  /\ pc[p] = "register"
  /\ \E status \in RegisterStatuses :
     \E body \in ReplyBodies(status) :
       /\ RegisterOk(status) => nextAcct <= MaxAccounts
       /\ http' = [http EXCEPT ![p] = Append(@, RegisterRequest(allowFrom, status, body))]
       /\ Log(p, "register")
       /\ IF RegisterOk(status)
            THEN /\ account' = [account EXCEPT ![p] = Account(nextAcct)]
                 /\ nextAcct' = nextAcct + 1
                 /\ pc' = [pc EXCEPT ![p] = "put"]
                 /\ UNCHANGED <<errors, exitStatus>>
            ELSE /\ Caught(p, RegisterError(status, body))
                 /\ UNCHANGED <<account, nextAcct>>
  /\ UNCHANGED <<file, file0, settings, domain, token, data, loaded, pending,
                 notices, cfg>>

\* storage.put(DOMAIN, account)
Put(p) ==
  /\ pc[p] = "put"
  /\ data' = [data EXCEPT ![p] = StoragePut(@, domain[p], account[p])]
  /\ Log(p, "put")
  /\ pc' = [pc EXCEPT ![p] = "save_open"]
  /\ UNCHANGED <<shared, settings, domain, token, loaded, account, pending, http,
                 notices, errors, exitStatus, cfg>>

\* storage.save(): os.open(..., O_WRONLY | O_CREAT, 0o600)
SaveOpen(p) ==
  /\ pc[p] = "save_open"
  /\ Log(p, "save")
  /\ \E ok \in BOOLEAN :
       IF ok
         THEN /\ file' = OpenForWrite(file)
              /\ pc' = [pc EXCEPT ![p] = "save_truncate"]
              /\ UNCHANGED <<errors, exitStatus>>
         ELSE /\ Caught(p, PlainError("storage_write"))
              /\ UNCHANGED file
  /\ UNCHANGED <<file0, nextAcct, settings, locals, http, notices, cfg>>

\* storage.save(): fh.truncate()
SaveTruncate(p) ==
  /\ pc[p] = "save_truncate"
  /\ file' = Truncate(file)
  /\ pc' = [pc EXCEPT ![p] = "save_write"]
  /\ UNCHANGED <<file0, nextAcct, settings, locals, logs, cfg>>

\* storage.save(): fh.write(serialized). The text is buffered, written
\* through, or the write fails with OSError leaving a torn file.
SaveWrite(p) ==
  /\ pc[p] = "save_write"
  /\ \/ /\ pending' = [pending EXCEPT ![p] = TRUE]
        /\ pc' = [pc EXCEPT ![p] = "save_close"]
        /\ UNCHANGED <<file, errors, exitStatus>>
     \/ /\ \E c \in Overwrite(file.content, data[p]) :
             file' = [file EXCEPT !.content = c]
        /\ pc' = [pc EXCEPT ![p] = "save_close"]
        /\ UNCHANGED <<pending, errors, exitStatus>>
     \/ /\ \E c \in TornContents(data[p]) : file' = [file EXCEPT !.content = c]
        /\ Caught(p, PlainError("storage_write"))
        /\ UNCHANGED pending
  /\ UNCHANGED <<file0, nextAcct, settings, domain, token, data, loaded, account, http,
                 events, notices, cfg>>

\* storage.save(): leaving the with block flushes the buffer and closes.
SaveClose(p) ==
  /\ pc[p] = "save_close"
  /\ pending' = [pending EXCEPT ![p] = FALSE]
  /\ \/ /\ IF pending[p]
             THEN \E c \in Overwrite(file.content, data[p]) :
                    file' = [file EXCEPT !.content = c]
             ELSE UNCHANGED file
        /\ Log(p, "saved")
        /\ pc' = [pc EXCEPT ![p] = "notice"]
        /\ UNCHANGED <<errors, exitStatus>>
     \/ /\ pending[p]
        /\ \E c \in TornContents(data[p]) : file' = [file EXCEPT !.content = c]
        /\ Caught(p, PlainError("storage_write"))
        /\ UNCHANGED events
  /\ UNCHANGED <<file0, nextAcct, settings, domain, token, data, loaded, account, http,
                 notices, cfg>>

\* print(msg.format(cname))
Notice(p) ==
  /\ pc[p] = "notice"
  /\ notices' = [notices EXCEPT ![p] = Append(@, CnameLine(domain[p], account[p]))]
  /\ Log(p, "notice")
  /\ pc' = [pc EXCEPT ![p] = "update"]
  /\ UNCHANGED <<shared, settings, locals, http, errors, exitStatus, cfg>>

\* client.update_txt_record(account, VALIDATION_TOKEN)
Update(p) ==
  /\ pc[p] = "update"
  /\ \E status \in UpdateStatuses :
     \E body \in ReplyBodies(status) :
       /\ http' = [http EXCEPT ![p] =
                     Append(@, UpdateRequest(account[p], token[p], status, body))]
       /\ Log(p, "update")
       /\ IF UpdateOk(status)
            THEN /\ pc' = [pc EXCEPT ![p] = "done"]
                 /\ exitStatus' = [exitStatus EXCEPT ![p] = 0]
                 /\ UNCHANGED errors
            ELSE Caught(p, UpdateError(account[p], token[p], status, body))
  /\ UNCHANGED <<shared, settings, locals, notices, cfg>>

Next ==
  \E p \in Procs :
    \/ ModuleLevel(p)
    \/ InitStorage(p)
    \/ Fetch(p)
    \/ Register(p)
    \/ Put(p)
    \/ SaveOpen(p)
    \/ SaveTruncate(p)
    \/ SaveWrite(p)
    \/ SaveClose(p)
    \/ Notice(p)
    \/ Update(p)

\* ------------------------------------------- build_acme_dns_config_from_env
\* Its input: ACMEDNS_URL, ACMEDNS_ALLOW_FROM, ACMEDNS_FORCE_REGISTER ("absent"
\* when unset) and the config file: "absent", "empty" (zero bytes), "invalid"
\* (not JSON) or "object", with the keys the object holds.
CfgIn(envUrl, envAllow, envForce, fileState, fileUrl, fileAllow, fileForce) ==
  [envUrl |-> envUrl, envAllow |-> envAllow, envForce |-> envForce,
   file |-> fileState, fileUrl |-> fileUrl, fileAllow |-> fileAllow,
   fileForce |-> fileForce]
NoCfgIn == CfgIn("absent", "absent", "absent", "absent", "absent", "absent", "absent")
CfgInputs ==
  {CfgIn(eu, ea, ef, "object", fu, fa, ff) :
     eu \in {"absent", "env_url"}, ea \in {"absent", "env_list", "invalid"},
     ef \in {"absent", "true", "false", "invalid"},
     fu \in {"absent", "file_url"}, fa \in {"absent", "file_list"},
     ff \in {"absent", "true", "false"}}
    \cup {CfgIn(eu, ea, ef, fs, "absent", "absent", "absent") :
            eu \in {"absent", "env_url"}, ea \in {"absent", "env_list", "invalid"},
            ef \in {"absent", "true", "false", "invalid"},
            fs \in {"absent", "empty", "invalid"}}

CfgOut(kind, url, allow, force) ==
  [kind |-> kind, url |-> url, allow |-> allow, force |-> force]
NoCfgOut == CfgOut("none", "None", "[]", FALSE)
Config(url, allow, force) ==
  CfgOut("config", IF url = "absent" THEN "None" ELSE url,
         IF allow = "absent" THEN "[]" ELSE allow, force = "true")
ConfigError(msg) == CfgOut(msg, "None", "[]", FALSE)

EnvValid(in) == in.envAllow # "invalid" /\ in.envForce # "invalid"
NoEnvGiven(in) ==
  in.envUrl = "absent" /\ in.envAllow = "absent" /\ in.envForce = "absent"
\* All three fields from the environment, defaults for the unset ones.
FromEnv(in) ==
  IF EnvValid(in) THEN Config(in.envUrl, in.envAllow, in.envForce)
  ELSE ConfigError("Invalid configuration")
\* All three fields from the file, defaults for the missing ones.
FromFile(in) ==
  IF in.file = "absent" THEN ConfigError("No configuration supplied")
  ELSE IF in.file = "invalid" THEN ConfigError("Invalid configuration")
  ELSE Config(in.fileUrl, in.fileAllow, in.fileForce)
\* Field by field: the environment's value, else the file's, else the default.
PerField(in) ==
  LET pick(e, f) == IF e # "absent" THEN e ELSE f
  IN IF ~EnvValid(in) \/ in.file = "invalid"
       THEN ConfigError("Invalid configuration")
     ELSE IF NoEnvGiven(in) /\ in.file = "absent"
       THEN ConfigError("No configuration supplied")
     ELSE Config(pick(in.envUrl, in.fileUrl), pick(in.envAllow, in.fileAllow),
                 pick(in.envForce, in.fileForce))

\* Variant: the three fields are merged one by one.
BuildConfigPerField(in) == {PerField(in)}
\* What the function may return or raise. The tests fix it where the
\* environment gives the URL (everything from the environment, the file's
\* values unused) and where the environment gives nothing (everything from
\* the file); elsewhere every reading the tests allow is kept.
BuildConfigOutcomes(in) ==
  IF in.envUrl # "absent"
    THEN IF in.file = "invalid" THEN {FromEnv(in), ConfigError("Invalid configuration")}
         ELSE {FromEnv(in)}
  ELSE IF NoEnvGiven(in)
    THEN IF in.file = "empty"
           THEN {FromFile(in), ConfigError("Invalid configuration"),
                 ConfigError("No configuration supplied")}
         ELSE {FromFile(in)}
  ELSE {FromEnv(in), FromFile(in), PerField(in)}

Resolve ==
  /\ cfgOut = NoCfgOut
  /\ cfgOut' \in BuildConfigOutcomes(cfgIn)
  /\ UNCHANGED <<shared, settings, pc, locals, logs, cfgIn>>

NextConfig == Resolve

\* ---------------------------------------------------- the store on its own
\* Storage(path): a fresh object over the current file.
ApiConstruct(p) ==
  /\ pc[p] = "api"
  /\ StorageLoad(file).ok
  /\ data' = [data EXCEPT ![p] = StorageLoad(file).data]
  /\ loaded' = [loaded EXCEPT ![p] = StorageLoad(file).data]
  /\ UNCHANGED <<shared, settings, pc, domain, token, account, pending, logs, cfg>>

ApiPut(p) ==
  /\ pc[p] = "api"
  /\ \E key \in Keys :
       data' = [data EXCEPT ![p] = StoragePut(@, key, Account(nextAcct))]
  /\ UNCHANGED <<shared, settings, pc, domain, token, loaded, account, pending,
                 logs, cfg>>

ApiFetch(p) ==
  /\ pc[p] = "api"
  /\ \E key \in Keys :
       /\ domain' = [domain EXCEPT ![p] = key]
       /\ account' = [account EXCEPT ![p] = StorageFetch(data[p], key)]
  /\ UNCHANGED <<shared, settings, pc, token, data, loaded, pending, logs, cfg>>

\* Storage.save from call to return: the open fails and the file is left
\* alone, or the file is truncated and holds the serialization or, after a
\* failed write, a torn text.
SaveOutcomes(f, map) ==
  {f} \cup {[OpenForWrite(f) EXCEPT !.content = c] :
             c \in TornContents(map) \cup Overwrite(EmptyContent, map)}
ApiSave(p) ==
  /\ pc[p] = "api"
  /\ file' \in SaveOutcomes(file, data[p])
  /\ UNCHANGED <<file0, nextAcct, settings, pc, locals, logs, cfg>>

NextStore ==
  \E p \in Procs :
    \/ ApiConstruct(p)
    \/ ApiPut(p)
    \/ ApiFetch(p)
    \/ ApiSave(p)

InitLocals ==
  /\ domain = [p \in Procs |-> NoKey]
  /\ token = [p \in Procs |-> ""]
  /\ data = [p \in Procs |-> EmptyMap]
  /\ loaded = [p \in Procs |-> EmptyMap]
  /\ account = [p \in Procs |-> None]
  /\ pending = [p \in Procs |-> FALSE]
  /\ http = [p \in Procs |-> <<>>]
  /\ events = [p \in Procs |-> <<>>]
  /\ notices = [p \in Procs |-> <<>>]
  /\ errors = [p \in Procs |-> <<>>]
  /\ exitStatus = [p \in Procs |-> -1]

\* One invocation of the script.
Init ==
  /\ file \in InitialFiles
  /\ file0 = file
  /\ nextAcct = 1
  /\ forceRegister \in BOOLEAN
  /\ allowFrom \in {<<>>, <<"192.168.10.0/24">>}
  /\ \E e \in Environments :
       environ = [p \in Procs |-> IF p = 1 THEN e ELSE NoEnv]
  /\ pc = [p \in Procs |-> IF p = 1 THEN "module" ELSE "off"]
  /\ InitLocals
  /\ cfgIn = NoCfgIn
  /\ cfgOut = NoCfgOut

Spec == Init /\ [][Next]_vars

\* Two invocations of the script at once, over one store file.
InitConc ==
  /\ file \in {AbsentFile} \cup {File(TRUE, TRUE, Serialize(m)) : m \in StoredMaps}
  /\ file0 = file
  /\ nextAcct = 1
  /\ forceRegister \in BOOLEAN
  /\ allowFrom = <<>>
  /\ \E d1, d2 \in CertbotDomains :
       /\ d1.base = "example.com"
       /\ environ = [p \in Procs |->
                       IF p = 1 THEN Env(TRUE, d1, TRUE, "tok1")
                       ELSE Env(TRUE, d2, TRUE, "tok2")]
  /\ pc = [p \in Procs |-> "module"]
  /\ InitLocals
  /\ cfgIn = NoCfgIn
  /\ cfgOut = NoCfgOut

SpecConc == InitConc /\ [][Next]_vars

\* A Storage object used through load, put, fetch and save.
InitStore ==
  /\ file \in {AbsentFile} \cup {File(TRUE, TRUE, Serialize(m)) : m \in StoredMaps}
  /\ file0 = file
  /\ nextAcct = 1
  /\ forceRegister = FALSE
  /\ allowFrom = <<>>
  /\ environ = [p \in Procs |-> NoEnv]
  /\ pc = [p \in Procs |-> IF p = 1 THEN "api" ELSE "off"]
  /\ domain = [p \in Procs |-> NoKey]
  /\ token = [p \in Procs |-> ""]
  /\ data = [p \in Procs |-> IF p = 1 THEN StorageLoad(file).data ELSE EmptyMap]
  /\ loaded = data
  /\ account = [p \in Procs |-> None]
  /\ pending = [p \in Procs |-> FALSE]
  /\ http = [p \in Procs |-> <<>>]
  /\ events = [p \in Procs |-> <<>>]
  /\ notices = [p \in Procs |-> <<>>]
  /\ errors = [p \in Procs |-> <<>>]
  /\ exitStatus = [p \in Procs |-> -1]
  /\ cfgIn = NoCfgIn
  /\ cfgOut = NoCfgOut

SpecStore == InitStore /\ [][NextStore]_vars

\* build_acme_dns_config_from_env applied to one environment and file.
InitConfig ==
  /\ file = AbsentFile
  /\ file0 = file
  /\ nextAcct = 1
  /\ forceRegister = FALSE
  /\ allowFrom = <<>>
  /\ environ = [p \in Procs |-> NoEnv]
  /\ pc = [p \in Procs |-> "off"]
  /\ InitLocals
  /\ cfgIn \in CfgInputs
  /\ cfgOut = NoCfgOut

SpecConfig == InitConfig /\ [][NextConfig]_vars


\* ------------------------------------------------------- reading a run
Count(seq, x) == Cardinality({i \in DOMAIN seq : seq[i] = x})
Calls(p, path) == {i \in DOMAIN http[p] : http[p][i].path = path}
IsPrefix(s, t) == Len(s) <= Len(t) /\ \A i \in DOMAIN s : s[i] = t[i]
\* CERTBOT_DOMAIN without its wildcard marker.
BareDomain(p) == [stars |-> 0, base |-> environ[p].domain.base]
InMain(p) == pc[p] \notin {"off", "api", "module", "uncaught"}
LoadOk(p) ==
  /\ InMain(p) /\ pc[p] # "init"
  /\ \A i \in DOMAIN errors[p] :
       errors[p][i].kind \notin {"storage_unreadable", "storage_corrupted"}
Terminal(p) == pc[p] \in {"done", "failed"}
\* The store held an account for the run's domain and FORCE_REGISTER is off.
HasAccount(p) ==
  LoadOk(p) /\ StorageFetch(loaded[p], BareDomain(p)) # None /\ ~forceRegister
\* No account for the run's domain, or FORCE_REGISTER is on.
MustRegister(p) ==
  LoadOk(p) /\ (StorageFetch(loaded[p], BareDomain(p)) = None \/ forceRegister)
\* The mapping the run holds after putting `acct` under its bare domain.
WithAccount(p, acct) ==
  [k \in DOMAIN loaded[p] \cup {BareDomain(p)} |->
     IF k = BareDomain(p) THEN acct ELSE loaded[p][k]]

\* The steps of a run that registers, in the order main takes them.
RegisterPath == <<"load", "register", "put", "save", "saved", "notice", "update">>
\* The run's save() has returned.
Saved(p) == Count(events[p], "saved") = 1

\* C1: a run that finds an account for its domain, with force-register off,
\* never posts to /register, never puts to or saves the store, and ends having
\* posted exactly once, to /update, with the stored account's subdomain and
\* credentials and the validation token.
C1_ExistingAccountOnlyUpdates ==
  \A p \in Procs :
    HasAccount(p) =>
      LET stored == StorageFetch(loaded[p], BareDomain(p))
      IN /\ Calls(p, "/register") = {}
         /\ Count(events[p], "put") = 0
         /\ Count(events[p], "save") = 0
         /\ data[p] = loaded[p]
         /\ file = file0
         /\ Cardinality(Calls(p, "/update")) <= 1
         /\ Terminal(p) =>
              /\ Len(http[p]) = 1
              /\ http[p][1].path = "/update"
              /\ http[p][1].subdomain = stored.subdomain
              /\ http[p][1].user = stored.username
              /\ http[p][1].key = stored.password
              /\ http[p][1].txt = environ[p].token
C1_Witness ==
  /\ pc[1] = "done" /\ HasAccount(1)
  /\ environ[1].domain.stars = 1
  /\ Len(http[1]) = 1 /\ http[1][1].path = "/update"

\* C2: a run that finds no account, or runs with force-register on, takes its
\* steps in the order register (201), put under the bare domain, save, CNAME
\* notice, update, each only after the one before succeeded; the notice names
\* _acme-challenge.<bare domain> and the new account's fulldomain, and the
\* update carries the new account's subdomain and the validation token.
C2_RegisterThenUpdateInOrder ==
  \A p \in Procs :
    MustRegister(p) =>
      /\ IsPrefix(events[p], RegisterPath)
      /\ pc[p] = "done" => events[p] = RegisterPath
      /\ Count(events[p], "put") = 1 =>
           /\ http[p][1].path = "/register" /\ http[p][1].status = 201
           /\ account[p] \in Accounts
           /\ data[p] = WithAccount(p, account[p])
      /\ Count(events[p], "saved") = 1 => file.content = Serialize(data[p])
      /\ Count(events[p], "notice") = 1 =>
           notices[p] = <<[name |-> <<"_acme-challenge", BareDomain(p)>>,
                           target |-> account[p].fulldomain]>>
      /\ Count(events[p], "notice") = 0 => notices[p] = <<>>
      /\ Count(events[p], "update") = 1 =>
           /\ Len(http[p]) = 2
           /\ http[p][2].path = "/update"
           /\ http[p][2].subdomain = account[p].subdomain
           /\ http[p][2].txt = environ[p].token
C2_Witness ==
  /\ pc[1] = "done" /\ MustRegister(1)
  /\ environ[1].domain.stars = 1
  /\ events[1] = RegisterPath
  /\ BareDomain(1) \in DOMAIN Parse(file.content).map

\* C3: every failing run, a missing CERTBOT_DOMAIN or CERTBOT_VALIDATION
\* included, ends in main's except clause: its message printed, exit status 1.
C3_EveryFailureCaught ==
  \A p \in Procs :
    exitStatus[p] \notin {-1, 0} =>
      /\ exitStatus[p] = 1
      /\ pc[p] = "failed"
      /\ Len(errors[p]) = 1

\* C4: whenever /update answers with a status other than 200, whatever the
\* response body, the run exits 1 and prints the update error holding the
\* response body verbatim, the status, and the outgoing headers and body.
C4_UpdateErrorCarriesBody ==
  \A p \in Procs :
    \A i \in Calls(p, "/update") :
      http[p][i].status # 200 =>
        /\ exitStatus[p] = 1
        /\ errors[p] =
             <<Message("update_error", http[p][i].status, http[p][i].body,
                       http[p][i].user, http[p][i].key, http[p][i].subdomain,
                       http[p][i].txt)>>

\* C6: at no point of save(), a failed write included, does the store file
\* hold text that load() accepts as a mapping other than the one it held
\* before the save or the one being saved.
C6_SaveAtomic ==
  \A p \in Procs :
    (LoadOk(p) /\ Count(events[p], "save") = 1 /\ StorageLoad(file).ok) =>
      StorageLoad(file).data \in {loaded[p], data[p]}

\* C8: a run of main() loads the store once, mutates the mapping at most once,
\* saves at most once and only after a mutation, posts at most once to
\* /register and at most once to /update, and never to /register after /update.
C8_OneLoadOneSaveTwoCalls ==
  \A p \in Procs :
    /\ Count(events[p], "load") <= 1
    /\ (InMain(p) /\ pc[p] # "init") => Count(events[p], "load") = 1
    /\ Count(events[p], "put") <= 1
    /\ Count(events[p], "save") <= Count(events[p], "put")
    /\ \A i, j \in DOMAIN events[p] :
         (events[p][i] = "save" /\ events[p][j] = "put") => j < i
    /\ Cardinality(Calls(p, "/register")) <= 1
    /\ Cardinality(Calls(p, "/update")) <= 1
    /\ Len(http[p]) <= 2
    /\ \A i \in Calls(p, "/update"), j \in Calls(p, "/register") : j < i
    /\ data[p] # loaded[p] => Count(events[p], "put") = 1
C8_Witness ==
  /\ pc[1] = "done"
  /\ Count(events[1], "load") = 1 /\ Count(events[1], "save") = 1
  /\ Len(http[1]) = 2

\* C10: in a single run, /update is only posted with the account the store
\* file maps the bare domain to; a non-201 registration or a failed save ends
\* the run with exit status 1, no CNAME notice and no /update, and a non-201
\* registration leaves the store file as it was.
C10_UpdateOnlyWithStoredAccount ==
  \A p \in Procs :
    /\ \A i \in Calls(p, "/update") :
         /\ Parse(file.content).ok
         /\ LET acct == StorageFetch(Parse(file.content).map, BareDomain(p))
            IN /\ acct # None
               /\ http[p][i].subdomain = acct.subdomain
               /\ http[p][i].user = acct.username
               /\ http[p][i].key = acct.password
    /\ \A i \in Calls(p, "/register") :
         http[p][i].status # 201 =>
           /\ pc[p] = "failed" /\ exitStatus[p] = 1
           /\ notices[p] = <<>> /\ Calls(p, "/update") = {}
           /\ file = file0 /\ data[p] = loaded[p]
    /\ \A i \in DOMAIN errors[p] :
         errors[p][i].kind = "storage_write" =>
           /\ pc[p] = "failed" /\ exitStatus[p] = 1
           /\ notices[p] = <<>> /\ Calls(p, "/update") = {}
C10_Witness ==
  /\ pc[1] = "failed"
  /\ Calls(1, "/register") # {} /\ http[1][1].status # 201
  /\ DOMAIN loaded[1] # {}


\* C5: whatever keys put is called with, keys with a repeated wildcard marker
\* included, no key of the in-memory mapping or of the saved file begins
\* with "*.".
C5_NoWildcardKeys ==
  \A p \in Procs :
    /\ \A k \in DOMAIN data[p] : k.stars = 0
    /\ Parse(file.content).ok =>
         \A k \in DOMAIN Parse(file.content).map : k.stars = 0

C9_ConcurrentSaveLosesAccount ==
  \A p, q \in Procs :
    (/\ p # q /\ Saved(p) /\ Saved(q)
     /\ BareDomain(p) # BareDomain(q)
     /\ BareDomain(q) \notin DOMAIN loaded[p]
     /\ BareDomain(p) \notin DOMAIN loaded[q]
     /\ Parse(file.content).ok) =>
      /\ Parse(file.content).map \in
           {WithAccount(p, account[p]), WithAccount(q, account[q])}
      /\ ~(/\ BareDomain(p) \in DOMAIN Parse(file.content).map
           /\ BareDomain(q) \in DOMAIN Parse(file.content).map)
C9_Witness ==
  /\ pc[1] = "done" /\ pc[2] = "done"
  /\ events[1] = RegisterPath /\ events[2] = RegisterPath
  /\ Len(notices[1]) = 1
  /\ http[1][2].path = "/update" /\ http[1][2].subdomain = account[1].subdomain
  /\ Parse(file.content).ok
  /\ BareDomain(1) \notin DOMAIN Parse(file.content).map
  /\ BareDomain(2) \in DOMAIN Parse(file.content).map

====
